---- MODULE Spec2Model ----
(***************************************************************************)
(* Upload page of the airline ETL frontend: the dataset detector           *)
(* (tokenizeHeader, KEYWORDS, pickBestMatch, detectDatasetFromFile), the   *)
(* upload transports (page-local fetch, api.js XHR, legacy XHR) and the    *)
(* Upload / Process handlers of UploadPage.                                *)
(*                                                                         *)
(* A JavaScript string is a sequence of one-character strings; Chars turns *)
(* a literal into that sequence.  Scores are kept in tenths (a token match *)
(* is 10, a filename match is 7) so that 0.7 stays exact.                  *)
(***************************************************************************)
EXTENDS Integers, Sequences, FiniteSets, TLC

VARIABLES
    rawLine,        \* argument of a direct tokenizeHeader call
    tokens,         \* [ran, out]: whether it ran, and its result
    pickTokens,     \* arguments of a direct pickBestMatch call
    pickName,
    scores,         \* the score table of the last pickBestMatch call
    best,           \* its result (NotRun before the call)
    calls,          \* number of direct pickBestMatch calls made
    file,           \* the file a detection or an upload works on
    det,            \* the detectDatasetFromFile call: its promise and its read
    tokensPreview,  \* useState: the token list shown under the file input
    pc,             \* where the page is: idle, detecting, uploading, processing;
                    \* lib when the transports of the api modules are called directly
    busy,           \* useState: a handler is running, the buttons are disabled
    progress,       \* useState: the width of the progress bar
    result,         \* useState: the message shown after a handler
    detected,       \* useState: the dataset of the last detection
    lastUploadId,   \* useState: the upload id the last successful upload returned
    up,             \* the uploadFile call: its transport, its promise, its callbacks
    sent,           \* the processing request in flight
    alertMsg,       \* the last alert() shown
    returnedIds,    \* history: the upload ids successful uploads have returned
    idDetected      \* history: the dataset detected in the handleUpload run that
                    \* last stored lastUploadId

historyVars == <<returnedIds, idDetected>>

pageVars == <<pc, busy, progress, result, detected, lastUploadId, up, sent, alertMsg,
              historyVars>>

vars == <<rawLine, tokens, pickTokens, pickName, scores, best, calls,
          file, det, tokensPreview, pageVars>>

pureVars == <<rawLine, tokens, pickTokens, pickName, scores, best, calls>>

NotRun == "(not run)"

----------------------------------------------------------------------------
(* Strings *)

\* a sequence given by a function, as an explicit tuple
Tup(f) == f \o <<>>

Chars(s) == Tup([i \in 1..Len(s) |-> SubSeq(s, i, i)])

UpperCase == Chars("ABCDEFGHIJKLMNOPQRSTUVWXYZ")
LowerCase == Chars("abcdefghijklmnopqrstuvwxyz")
UpperSet == {UpperCase[i] : i \in 1..Len(UpperCase)}

\* String.prototype.toLowerCase, one character
LowerChar(c) ==
    IF c \in UpperSet
    THEN LowerCase[CHOOSE i \in 1..Len(UpperCase) : UpperCase[i] = c]
    ELSE c

toLowerCase(s) == Tup([i \in 1..Len(s) |-> LowerChar(s[i])])

\* the regular expression class \s, as far as the model's alphabet goes
IsSpace(c) == c \in {" ", "\t", "\n", "\r", "\f"}

\* the class [\s\-] of tokenizeHeader's replace
IsSepChar(c) == IsSpace(c) \/ c = "-"

\* the class [,;\t|] of tokenizeHeader's split
IsDelim(c) == c \in {",", ";", "\t", "|"}

\* String.prototype.includes: k occurs in t as a contiguous substring
includes(t, k) ==
    \E i \in 0..(Len(t) - Len(k)) : \A j \in 1..Len(k) : t[i + j] = k[j]

endsWith(t, k) ==
    Len(k) <= Len(t) /\ SubSeq(t, Len(t) - Len(k) + 1, Len(t)) = k

\* String.prototype.trim
RECURSIVE trimStart(_)
trimStart(s) ==
    IF s # <<>> /\ IsSpace(Head(s)) THEN trimStart(Tail(s)) ELSE s

RECURSIVE trimEnd(_)
trimEnd(s) ==
    IF s # <<>> /\ IsSpace(s[Len(s)]) THEN trimEnd(SubSeq(s, 1, Len(s) - 1)) ELSE s

trim(s) == trimEnd(trimStart(s))

\* the least element of a non-empty set of positions
First(S) == CHOOSE i \in S : \A j \in S : i <= j

\* s.split(/[,;\t|]/): cut at every delimiter, empty fields kept
RECURSIVE splitDelims(_)
splitDelims(s) ==
    LET at == {i \in 1..Len(s) : IsDelim(s[i])}
    IN  IF at = {} THEN <<s>>
        ELSE <<SubSeq(s, 1, First(at) - 1)>>
             \o splitDelims(SubSeq(s, First(at) + 1, Len(s)))

\* s.replace(/[\s\-]+/g, "_"): every maximal run becomes one underscore
RECURSIVE ReplaceRunsFrom(_, _, _, _)
ReplaceRunsFrom(s, i, inRun, acc) ==
    IF i > Len(s) THEN acc
    ELSE IF IsSepChar(s[i])
         THEN ReplaceRunsFrom(s, i + 1, TRUE, IF inRun THEN acc ELSE Append(acc, "_"))
         ELSE ReplaceRunsFrom(s, i + 1, FALSE, Append(acc, s[i]))

replaceRuns(s) == ReplaceRunsFrom(s, 1, FALSE, <<>>)

\* the first map of tokenizeHeader
normalizeField(s) == replaceRuns(toLowerCase(trim(s)))

\* a plausible slip: the icao_code synonym is forgotten
canonicalizeNoIcaoCode(t) ==
    IF t \in {Chars("iata"), Chars("iata_code"), Chars("airport_code")} THEN Chars("airportkey")
    ELSE IF t \in {Chars("icao")} THEN Chars("icao")
    ELSE t

\* the second map of tokenizeHeader: canonicalize common legacy tokens
canonicalize(t) ==
    IF t \in {Chars("iata"), Chars("iata_code"), Chars("airport_code")} THEN Chars("airportkey")
    ELSE IF t \in {Chars("icao"), Chars("icao_code")} THEN Chars("icao")
    ELSE t

NonEmpty(s) == s # <<>>

\* .split(...).map(...)
normalizedFields(line) ==
    LET fields == splitDelims(line)
    IN  Tup([i \in 1..Len(fields) |-> normalizeField(fields[i])])

\* .filter(Boolean).map(...)
tokenizeHeader(line) ==
    LET kept == SelectSeq(normalizedFields(line), NonEmpty)
    IN  Tup([i \in 1..Len(kept) |-> canonicalize(kept[i])])

----------------------------------------------------------------------------
(* KEYWORDS and pickBestMatch *)

\* KEYWORDS, in the insertion order Object.entries walks
KEYWORDS ==
    << [ds |-> "airline",
        keys |-> <<Chars("airline"), Chars("airlinekey"), Chars("airlinename")>>],
       [ds |-> "passenger",
        keys |-> <<Chars("passenger"), Chars("passengerkey"), Chars("fullname")>>],
       [ds |-> "flight",
        keys |-> <<Chars("flightkey"), Chars("originairportkey"),
                   Chars("destinationairportkey")>>],
       [ds |-> "airport",
        keys |-> <<Chars("airportkey"), Chars("airport"), Chars("airportname"),
                   Chars("city"), Chars("country"), Chars("icao")>>],
       [ds |-> "travelagency",
        keys |-> <<Chars("agency"), Chars("booking"), Chars("saleamount")>>],
       [ds |-> "corporatesales",
        keys |-> <<Chars("invoice"), Chars("transactionid"), Chars("corporate")>>] >>

Datasets == {KEYWORDS[i].ds : i \in 1..Len(KEYWORDS)}

\* score++ for a token match, in tenths
TokenWeight == 10

\* score += 0.7 for a filename match, in tenths
FilenameWeight == 7

\* k.replace(/_/g, "")
NotUnderscore(c) == c # "_"

stripUnderscores(k) == SelectSeq(k, NotUnderscore)

\* a plausible slip: the table is kept between calls instead of rebuilt
scoreStartStale(ds) == IF ds \in DOMAIN scores THEN scores[ds] ELSE 0

\* let score = 0, for the dataset ds
scoreStart(ds) == 0

\* a plausible slip: a token counts only when it is the keyword itself
RECURSIVE KeysLoopExact(_, _, _, _)
KeysLoopExact(t, keys, j, score) ==
    IF j > Len(keys) THEN score
    ELSE KeysLoopExact(t, keys, j + 1,
                       IF t = keys[j] THEN score + TokenWeight ELSE score)

\* for (const k of keys) if (t.includes(k)) score++
RECURSIVE KeysLoop(_, _, _, _)
KeysLoop(t, keys, j, score) ==
    IF j > Len(keys) THEN score
    ELSE KeysLoop(t, keys, j + 1,
                  IF includes(t, keys[j]) THEN score + TokenWeight ELSE score)

\* for (const t of tokens) ...
RECURSIVE TokensLoop(_, _, _, _)
TokensLoop(toks, i, keys, score) ==
    IF i > Len(toks) THEN score
    ELSE TokensLoop(toks, i + 1, keys, KeysLoop(toks[i], keys, 1, score))

\* for (const k of keys) if (filename.toLowerCase().includes(k.replace(/_/g, ""))) score += 0.7
RECURSIVE FilenameLoop(_, _, _, _)
FilenameLoop(filename, keys, j, score) ==
    IF j > Len(keys) THEN score
    ELSE FilenameLoop(filename, keys, j + 1,
                      IF includes(toLowerCase(filename), stripUnderscores(keys[j]))
                      THEN score + FilenameWeight ELSE score)

\* the body of pickBestMatch's loop over Object.entries(KEYWORDS)
scoreOf(e, toks, filename) ==
    FilenameLoop(filename, e.keys, 1, TokensLoop(toks, 1, e.keys, scoreStart(e.ds)))

\* Object.entries(scores) after the loop
scoreEntries(toks, filename) ==
    Tup([i \in 1..Len(KEYWORDS) |-> <<KEYWORDS[i].ds, scoreOf(KEYWORDS[i], toks, filename)>>])

\* the scores object, from its entries
RECURSIVE fromEntries(_, _)
fromEntries(entries, i) ==
    IF i > Len(entries) THEN [ds \in {} |-> 0]
    ELSE (entries[i][1] :> entries[i][2]) @@ fromEntries(entries, i + 1)

scoreTable(toks, filename) == fromEntries(scoreEntries(toks, filename), 1)

\* a plausible slip: an entry goes in front of the entries it ties with
RECURSIVE insertBeforeTies(_, _)
insertBeforeTies(sorted, e) ==
    IF sorted = <<>> THEN <<e>>
    ELSE IF Head(sorted)[2] > e[2] THEN <<Head(sorted)>> \o insertBeforeTies(Tail(sorted), e)
    ELSE <<e>> \o sorted

\* Array.prototype.sort is stable: with (a, b) => b[1] - a[1] an entry stays
\* behind every earlier entry whose score is at least its own
RECURSIVE insertSorted(_, _)
insertSorted(sorted, e) ==
    IF sorted = <<>> THEN <<e>>
    ELSE IF Head(sorted)[2] >= e[2] THEN <<Head(sorted)>> \o insertSorted(Tail(sorted), e)
    ELSE <<e>> \o sorted

RECURSIVE sortDescFrom(_, _, _)
sortDescFrom(entries, i, sorted) ==
    IF i > Len(entries) THEN sorted
    ELSE sortDescFrom(entries, i + 1, insertSorted(sorted, entries[i]))

sortDesc(entries) == sortDescFrom(entries, 1, <<>>)

pickBestMatch(toks, filename) ==
    LET top == Head(sortDesc(scoreEntries(toks, filename)))
    IN  IF top[2] > 0 THEN top[1] ELSE "airline"

----------------------------------------------------------------------------
(* detectDatasetFromCSV and detectDatasetFromFile *)

NoFile == [present |-> FALSE, name |-> <<>>, text |-> <<>>]

NoPreview == [shown |-> FALSE, out |-> <<>>]

NoDataset == "(none)"

DetIdle == [state |-> "idle", path |-> "none", read |-> "none", value |-> NoDataset]

\* file.slice(0, 65536): the leading characters the reader is given
SliceEnd == 65536

slice(text) == SubSeq(text, 1, IF Len(text) < SliceEnd THEN Len(text) ELSE SliceEnd)

\* text.split(/\r?\n/): cut at every line feed, with the carriage return
\* right before it
RECURSIVE splitLines(_)
splitLines(s) ==
    LET at == {i \in 1..Len(s) : s[i] = "\n"}
    IN  IF at = {} THEN <<s>>
        ELSE LET n == First(at)
             IN  <<SubSeq(s, 1, IF n > 1 /\ s[n - 1] = "\r" THEN n - 2 ELSE n - 1)>>
                 \o splitLines(SubSeq(s, n + 1, Len(s)))

\* .find((l) => l && l.trim()) || ""
firstNonBlankLine(text) ==
    LET lines == splitLines(text)
        hits  == {i \in 1..Len(lines) : lines[i] # <<>> /\ trim(lines[i]) # <<>>}
    IN  IF hits = {} THEN <<>>
        ELSE lines[First(hits)]

\* a plausible slip: airline is tried before airport
fileNameRuleAirlineFirst(name) ==
    IF includes(name, Chars("airline")) THEN "airline"
    ELSE IF includes(name, Chars("airport")) THEN "airport"
    ELSE IF includes(name, Chars("passeng")) THEN "passenger"
    ELSE IF includes(name, Chars("flight")) THEN "flight"
    ELSE IF includes(name, Chars("booking")) \/ includes(name, Chars("travel"))
         THEN "travelagency"
    ELSE IF includes(name, Chars("corp")) \/ includes(name, Chars("invoice"))
         THEN "corporatesales"
    ELSE NoDataset

\* the chain of if (name.includes(...)) return ... of detectDatasetFromFile
fileNameRule(name) ==
    IF includes(name, Chars("airport")) THEN "airport"
    ELSE IF includes(name, Chars("airline")) THEN "airline"
    ELSE IF includes(name, Chars("passeng")) THEN "passenger"
    ELSE IF includes(name, Chars("flight")) THEN "flight"
    ELSE IF includes(name, Chars("booking")) \/ includes(name, Chars("travel"))
         THEN "travelagency"
    ELSE IF includes(name, Chars("corp")) \/ includes(name, Chars("invoice"))
         THEN "corporatesales"
    ELSE NoDataset

\* detectDatasetFromFile up to its first await: a .csv name starts the
\* FileReader, a name rule returns at once, anything else starts file.text()
detectStart(f) ==
    LET name == toLowerCase(f.name)
    IN  IF endsWith(name, Chars(".csv"))
        THEN [state |-> "pending", path |-> "csv", read |-> "reading", value |-> NoDataset]
        ELSE IF fileNameRule(name) # NoDataset
        THEN [state |-> "settled", path |-> "name", read |-> "none",
              value |-> fileNameRule(name)]
        ELSE [state |-> "pending", path |-> "text", read |-> "reading", value |-> NoDataset]

\* reader.onload, and the return that follows the await in detectDatasetFromFile
ReaderLoad ==
    /\ det.state = "pending" /\ det.path = "csv" /\ det.read = "reading"
    /\ LET toks == tokenizeHeader(firstNonBlankLine(slice(file.text)))
       IN  /\ tokensPreview' = [shown |-> TRUE, out |-> toks]
           /\ det' = [det EXCEPT !.state = "settled", !.read = "loaded",
                                 !.value = pickBestMatch(toks, toLowerCase(file.name))]
    /\ UNCHANGED <<file, pureVars, pageVars>>

\* the read fails: the reader has no onerror (nor onabort) handler, so nothing
\* resolves the promise of detectDatasetFromCSV
ReaderError ==
    /\ det.state = "pending" /\ det.path = "csv" /\ det.read = "reading"
    /\ det' = [det EXCEPT !.read = "failed"]
    /\ UNCHANGED <<file, tokensPreview, pureVars, pageVars>>

\* file.text() resolves: the try block of the fallback
TextResolve ==
    /\ det.state = "pending" /\ det.path = "text" /\ det.read = "reading"
    /\ LET toks == tokenizeHeader(firstNonBlankLine(file.text))
       IN  /\ tokensPreview' = [shown |-> TRUE, out |-> toks]
           /\ det' = [det EXCEPT !.state = "settled", !.read = "loaded",
                                 !.value = pickBestMatch(toks, toLowerCase(file.name))]
    /\ UNCHANGED <<file, pureVars, pageVars>>

\* file.text() rejects: the catch block of the fallback
TextReject ==
    /\ det.state = "pending" /\ det.path = "text" /\ det.read = "reading"
    /\ tokensPreview' = NoPreview
    /\ det' = [det EXCEPT !.state = "settled", !.read = "failed", !.value = "airline"]
    /\ UNCHANGED <<file, pureVars, pageVars>>

----------------------------------------------------------------------------
(* The state of UploadPage and of an uploadFile call *)

\* null as an upload id
NoId == -1

\* the largest upload id a server answers with
MaxId == 2

\* the size of the largest request body, in transmitted units
MaxTotal == 3

\* the most progress events of one upload, the closing one apart
MaxEvents == 2

NoResult == [shown |-> FALSE, ok |-> FALSE, message |-> ""]

NoRequest == [issued |-> FALSE, uploadId |-> NoId, dataset |-> NoDataset]

\* what a settled uploadFile promise carries: the keys of the object, its success
\* and its upload_id
Res(keys, success, id) == [keys |-> keys, success |-> success, uploadId |-> id]

NoRes == Res({}, FALSE, NoId)

UpIdle ==
    [impl |-> "none", state |-> "idle", cb |-> FALSE, loaded |-> 0, total |-> 0,
     complete |-> FALSE, events |-> 0, log |-> <<>>, outcome |-> "none",
     status |-> 0, res |-> NoRes]

\* the state after construction; mode is idle for the page, lib for direct
\* calls of the api modules, off for direct calls of the detector helpers
PageStart(mode) ==
    /\ pc = mode
    /\ busy = FALSE
    /\ progress = 0
    /\ result = NoResult
    /\ detected = NoDataset
    /\ lastUploadId = NoId
    /\ up = UpIdle
    /\ sent = NoRequest
    /\ alertMsg = ""
    /\ returnedIds = {}
    /\ idDetected = NoDataset

\* the responses a server gives
Statuses == {200, 201, 404, 500}

\* res.ok, and status >= 200 && status < 300
IsOk(status) == status >= 200 /\ status < 300

\* response bodies: empty, not JSON, JSON that is falsy (null, 0, false), a JSON
\* object without upload_id, a JSON object with one
Bodies ==
    {[kind |-> k, id |-> NoId] : k \in {"empty", "text", "jsonfalsy", "json"}}
    \cup {[kind |-> "json", id |-> i] : i \in 0..MaxId}

\* a plausible slip: handleProcess does not test lastUploadId
FalsyNever(id) == FALSE

\* !lastUploadId
Falsy(id) == id = NoId \/ id = 0

----------------------------------------------------------------------------
(* Direct calls of tokenizeHeader *)

\* the longest header line, in pieces, that is tried
MaxPieces == 3

Pieces ==
    {Chars("IATA"), Chars("icao"), Chars("Code"), Chars("x"),
     Chars(" "), Chars("-"), Chars("_"), Chars(","), Chars("\t")}

RECURSIVE Concats(_)
Concats(n) ==
    IF n = 0 THEN {<<>>}
    ELSE Concats(n - 1) \cup {l \o p : l \in Concats(n - 1), p \in Pieces}

ExampleLine == Chars("IATA Code, Flight-Key, Origin Airport Key")

ExampleLines ==
    {ExampleLine,
     Chars("airport_code;ICAO-Code|Flight  Key|iata"),
     Chars(",;|"),
     Chars(" Full Name ,, full name ")}

HeaderLines == Concats(MaxPieces) \cup ExampleLines

TokInit ==
    /\ rawLine \in HeaderLines
    /\ tokens = [ran |-> FALSE, out |-> <<>>]
    /\ pickTokens = <<>>
    /\ pickName = <<>>
    /\ scores = [ds \in {} |-> 0]
    /\ best = NotRun
    /\ calls = 0
    /\ file = NoFile
    /\ det = DetIdle
    /\ tokensPreview = NoPreview
    /\ PageStart("off")

TokenizeCall ==
    /\ ~tokens.ran
    /\ tokens' = [ran |-> TRUE, out |-> tokenizeHeader(rawLine)]
    /\ UNCHANGED <<rawLine, pickTokens, pickName, scores, best, calls>>
    /\ UNCHANGED <<file, det, tokensPreview, pageVars>>

TokNext == TokenizeCall

TokSpec == TokInit /\ [][TokNext]_vars

----------------------------------------------------------------------------
(* The reference normalizer of the specification, by positions *)

\* the k-th smallest element of a finite set of integers
Nth(S, k) == CHOOSE x \in S : Cardinality({y \in S : y < x}) = k - 1

RefFields(s) ==
    LET cuts == {0, Len(s) + 1} \cup {i \in 1..Len(s) : IsDelim(s[i])}
    IN  [j \in 1..(Cardinality(cuts) - 1) |->
            SubSeq(s, Nth(cuts, j) + 1, Nth(cuts, j + 1) - 1)]

RefTrimLower(f) ==
    LET solid == {i \in 1..Len(f) : ~IsSpace(f[i])}
    IN  IF solid = {} THEN <<>>
        ELSE LET lo == Nth(solid, 1)
                 hi == Nth(solid, Cardinality(solid))
             IN  [i \in 1..(hi - lo + 1) |-> LowerChar(f[lo + i - 1])]

RefCollapse(f) ==
    LET keep == {i \in 1..Len(f) : ~IsSepChar(f[i]) \/ i = 1 \/ ~IsSepChar(f[i - 1])}
    IN  [j \in 1..Cardinality(keep) |->
            IF IsSepChar(f[Nth(keep, j)]) THEN "_" ELSE f[Nth(keep, j)]]

RefSynonyms ==
    {<<Chars("iata"), Chars("airportkey")>>,
     <<Chars("iata_code"), Chars("airportkey")>>,
     <<Chars("airport_code"), Chars("airportkey")>>,
     <<Chars("icao"), Chars("icao")>>,
     <<Chars("icao_code"), Chars("icao")>>}

RefSynonym(t) ==
    IF \E p \in RefSynonyms : p[1] = t
    THEN (CHOOSE p \in RefSynonyms : p[1] = t)[2]
    ELSE t

RefNormalize(s) ==
    LET fields == RefFields(s)
        norm   == [j \in 1..Len(fields) |-> RefCollapse(RefTrimLower(fields[j]))]
        live   == {j \in 1..Len(fields) : norm[j] # <<>>}
    IN  [n \in 1..Cardinality(live) |-> RefSynonym(norm[Nth(live, n)])]

HasDoubleUnderscore(t) == \E i \in 1..(Len(t) - 1) : t[i] = "_" /\ t[i + 1] = "_"

IsLower(t) == \A i \in 1..Len(t) : LowerChar(t[i]) = t[i]

\* C6: every token tokenizeHeader produces is non-empty, lowercase, free of
\* leading and trailing whitespace, free of whitespace and hyphens, and has no
\* two consecutive underscores.
C6_TokensClean ==
    tokens.ran =>
        \A n \in 1..Len(tokens.out) :
            /\ tokens.out[n] # <<>>
            /\ IsLower(tokens.out[n])
            /\ \A i \in 1..Len(tokens.out[n]) : ~IsSepChar(tokens.out[n][i])
            /\ ~HasDoubleUnderscore(tokens.out[n])

\* the part of C6 that the code keeps: all of it but the underscore runs
C6_TokensCleanButUnderscores ==
    tokens.ran =>
        \A n \in 1..Len(tokens.out) :
            /\ tokens.out[n] # <<>>
            /\ IsLower(tokens.out[n])
            /\ \A i \in 1..Len(tokens.out[n]) : ~IsSepChar(tokens.out[n][i])

\* C8: tokenizeHeader agrees with the reference normalizer on every line: split
\* on , ; tab | ; trim, lowercase, collapse whitespace/hyphen runs to one
\* underscore; drop empties; rewrite the five synonyms and nothing else; keep
\* order and duplicates; an empty or delimiter-only line gives no token.
C8_TokenizeIsReference ==
    tokens.ran =>
        /\ tokens.out = RefNormalize(rawLine)
        /\ (rawLine = ExampleLine =>
                tokens.out = <<Chars("airportkey"), Chars("flight_key"),
                           Chars("origin_airport_key")>>)
        /\ (rawLine = Chars(" Full Name ,, full name ") =>
                tokens.out = <<Chars("full_name"), Chars("full_name")>>)
        /\ ((\A i \in 1..Len(rawLine) : IsDelim(rawLine[i])) => tokens.out = <<>>)

C8_Witness ==
    /\ tokens.ran
    /\ rawLine = ExampleLine
    /\ tokens.out = <<Chars("airportkey"), Chars("flight_key"), Chars("origin_airport_key")>>

----------------------------------------------------------------------------
(* Direct calls of pickBestMatch *)

\* the longest token list of a first call
MaxTokens == 3

\* the number of calls made one after the other
MaxCalls == 2

TokenPool ==
    {Chars("airline"), Chars("passengerkey"), Chars("flightkey"),
     Chars("originairportkey"), Chars("city"), Chars("booking"), Chars("date")}

RECURSIVE TokenLists(_)
TokenLists(n) ==
    IF n = 0 THEN {<<>>}
    ELSE TokenLists(n - 1) \cup {Append(l, t) : l \in TokenLists(n - 1), t \in TokenPool}

AllTokenLists == TokenLists(MaxTokens)

PickNames ==
    {Chars("data.csv"), Chars("flights_q1.csv"), Chars("Airline_Airport.csv"),
     Chars("corporate_invoice.csv")}

PickInit ==
    /\ rawLine = <<>>
    /\ tokens = [ran |-> FALSE, out |-> <<>>]
    /\ pickTokens = <<>>
    /\ pickName = <<>>
    /\ scores = [ds \in {} |-> 0]
    /\ best = NotRun
    /\ calls = 0
    /\ file = NoFile
    /\ det = DetIdle
    /\ tokensPreview = NoPreview
    /\ PageStart("off")

\* a first call takes any token list, a later one the list less its first token
PickCall ==
    /\ calls < MaxCalls
    /\ \E toks \in (IF calls = 0 THEN AllTokenLists
                   ELSE IF pickTokens = <<>> THEN {<<>>} ELSE {Tail(pickTokens)}),
          name \in PickNames :
        /\ pickTokens' = toks
        /\ pickName' = name
        /\ scores' = scoreTable(toks, name)
        /\ best' = pickBestMatch(toks, name)
    /\ calls' = calls + 1
    /\ UNCHANGED <<rawLine, tokens>>
    /\ UNCHANGED <<file, det, tokensPreview, pageVars>>

PickNext == PickCall

PickSpec == PickInit /\ [][PickNext]_vars

\* the keyword list of a dataset
KeysOf(ds) == (CHOOSE i \in 1..Len(KEYWORDS) : KEYWORDS[i].ds = ds)

\* the score of the specification: 1 for every pair (token position, keyword)
\* with the token containing the keyword, 0.7 for every keyword the lowercased
\* filename contains (underscores removed from the keyword); in tenths
RefScore(ds, toks, filename) ==
    LET keys  == KEYWORDS[KeysOf(ds)].keys
        lname == toLowerCase(filename)
    IN  10 * Cardinality({p \in (1..Len(toks)) \X (1..Len(keys)) :
                              includes(toks[p[1]], keys[p[2]])})
        + 7 * Cardinality({j \in 1..Len(keys) :
                              includes(lname, stripUnderscores(keys[j]))})

\* the reference scores, in KEYWORDS order
RefScores(toks, filename) ==
    Tup([i \in 1..Len(KEYWORDS) |-> RefScore(KEYWORDS[i].ds, toks, filename)])

SeqMax(q) == CHOOSE m \in {q[i] : i \in 1..Len(q)} : \A i \in 1..Len(q) : q[i] <= m

\* the positions in KEYWORDS of the datasets that reach the maximum
Leaders(q) == {i \in 1..Len(q) : q[i] = SeqMax(q)}

\* C7: the score of every dataset is (token, keyword) containment pairs, tokens
\* with multiplicity, plus 0.7 per keyword the lowercased filename contains; it
\* is never negative, and a call's table owes nothing to the call before it.
C7_ScoreFormula ==
    calls > 0 =>
        \A ds \in Datasets :
            /\ scores[ds] = RefScore(ds, pickTokens, pickName)
            /\ scores[ds] >= 0

\* a second call, after a first call that scored some dataset higher
C7_Witness ==
    /\ calls = 2
    /\ pickTokens = <<Chars("passengerkey"), Chars("passengerkey")>>
    /\ pickName = Chars("Airline_Airport.csv")
    /\ scores["passenger"] = 40
    /\ scores["airline"] = 7
    /\ scores["airport"] = 7
    /\ scores["flight"] = 0

\* C2 as stated: the strictly highest dataset wins, and a maximum of 0 or a
\* maximum shared by two or more datasets gives airline.
C2_TieGivesAirline ==
    calls > 0 =>
        LET q == RefScores(pickTokens, pickName)
        IN  best = IF SeqMax(q) > 0 /\ Cardinality(Leaders(q)) = 1
                   THEN KEYWORDS[Nth(Leaders(q), 1)].ds
                   ELSE "airline"

\* C2 as the code has it: a maximum of 0 gives airline; otherwise the dataset
\* listed first in KEYWORDS among those that reach the maximum wins, which is
\* the strictly highest dataset when there is one.
C2_FirstListedWins ==
    calls > 0 =>
        LET q == RefScores(pickTokens, pickName)
        IN  best = IF SeqMax(q) > 0
                   THEN KEYWORDS[Nth(Leaders(q), 1)].ds
                   ELSE "airline"

\* flight and travelagency tie at 1 and flight, listed first, wins
C2_Witness ==
    /\ calls > 0
    /\ pickTokens = <<Chars("booking"), Chars("flightkey")>>
    /\ pickName = Chars("data.csv")
    /\ scores["flight"] = 10
    /\ scores["travelagency"] = 10
    /\ best = "flight"

----------------------------------------------------------------------------
(* Direct calls of detectDatasetFromFile *)

FlightsHeader == Chars("flightkey,originairportkey,destinationairportkey,date")

DetectNames ==
    {Chars("flights_q1.csv"), Chars("data.csv"), Chars("DATA.CSV"),
     Chars("airline_city.csv"),
     Chars("Airport_Flights.docx"), Chars("airline_airports.txt"),
     Chars("passenger_flights.xlsx"), Chars("flight_bookings.docx"),
     Chars("travel_corp.docx"), Chars("Invoice.pdf"), Chars("corp.csv.bak"),
     Chars("report.docx"), Chars("city_list.docx")}

DetectHeaders ==
    {FlightsHeader,
     <<>>,
     Chars("id,name,date"),
     Chars("Passenger Name, PassengerKey ID"),
     Chars("airline,city,country"),
     Chars("originairportkey"),
     Chars("flightkey;booking"),
     Chars("Invoice|TransactionID|Corporate"),
     Chars("IATA Code, ICAO-Code"),
     Chars("agency,saleamount,fullname,fullname")}

\* a header line alone, after blank lines, and before data rows
DetectTexts ==
    DetectHeaders
    \cup {Chars("\n  \r\n") \o h : h \in DetectHeaders}
    \cup {h \o Chars("\r\nairportkey,airportkey\n") : h \in DetectHeaders}

DetectFiles ==
    {[present |-> TRUE, name |-> n, text |-> t] : n \in DetectNames, t \in DetectTexts}

DetectInit ==
    /\ rawLine = <<>>
    /\ tokens = [ran |-> FALSE, out |-> <<>>]
    /\ pickTokens = <<>>
    /\ pickName = <<>>
    /\ scores = [ds \in {} |-> 0]
    /\ best = NotRun
    /\ calls = 0
    /\ file \in DetectFiles
    /\ det = DetIdle
    /\ tokensPreview = NoPreview
    /\ PageStart("off")

DetectCall ==
    /\ det.state = "idle"
    /\ file.present
    /\ det' = detectStart(file)
    /\ UNCHANGED <<file, tokensPreview, pureVars, pageVars>>

DetectNext == DetectCall \/ ReaderLoad \/ ReaderError \/ TextResolve \/ TextReject

DetectSpec == DetectInit /\ [][DetectNext]_vars

IsCsv(f) == endsWith(toLowerCase(f.name), Chars(".csv"))

\* the header line detection works on
HeaderOf(f) == firstNonBlankLine(f.text)

\* C1: flights_q1.csv with the header flightkey,originairportkey,
\* destinationairportkey,date is detected as flight.
C1_FlightsFileIsFlight ==
    (/\ det.state = "settled"
     /\ file.name = Chars("flights_q1.csv")
     /\ HeaderOf(file) = FlightsHeader)
    => det.value = "flight"

\* the keywords that stand in one dataset's list only, with that dataset
UniqueKeywords ==
    {<<i, j>> \in (1..Len(KEYWORDS)) \X (1..6) :
        /\ j <= Len(KEYWORDS[i].keys)
        /\ \A i2 \in 1..Len(KEYWORDS) : \A j2 \in 1..Len(KEYWORDS[i2].keys) :
               KEYWORDS[i2].keys[j2] = KEYWORDS[i].keys[j] => i2 = i}

\* C3 as stated: a .csv header with a token that contains a keyword of one
\* dataset's list only is detected as that dataset, whatever else is there.
C3_UniqueKeywordDecides ==
    (det.state = "settled" /\ det.path = "csv") =>
        LET toks == RefNormalize(HeaderOf(file))
        IN  \A u \in UniqueKeywords :
                (\E n \in 1..Len(toks) : includes(toks[n], KEYWORDS[u[1]].keys[u[2]]))
                => det.value = KEYWORDS[u[1]].ds

\* C3 as the code has it: a .csv header with a token that contains a keyword
\* of a dataset is detected as that dataset when no token and not the filename
\* contains a keyword of any other dataset.
C3_OnlyScorerDecides ==
    (det.state = "settled" /\ det.path = "csv") =>
        LET toks == RefNormalize(HeaderOf(file))
            q    == RefScores(toks, toLowerCase(file.name))
        IN  \A i \in 1..Len(KEYWORDS) :
                (/\ \E n \in 1..Len(toks), j \in 1..Len(KEYWORDS[i].keys) :
                        includes(toks[n], KEYWORDS[i].keys[j])
                 /\ \A i2 \in 1..Len(KEYWORDS) : i2 # i => q[i2] = 0)
                => det.value = KEYWORDS[i].ds

C3_Witness ==
    /\ det.state = "settled" /\ det.path = "csv"
    /\ file.name = Chars("DATA.CSV")
    /\ HeaderOf(file) = Chars("Passenger Name, PassengerKey ID")
    /\ det.value = "passenger"

\* the name rules of the specification, in priority order
RefNameRules ==
    << <<{Chars("airport")}, "airport">>,
       <<{Chars("airline")}, "airline">>,
       <<{Chars("passeng")}, "passenger">>,
       <<{Chars("flight")}, "flight">>,
       <<{Chars("booking"), Chars("travel")}, "travelagency">>,
       <<{Chars("corp"), Chars("invoice")}, "corporatesales">> >>

RefRuleHits(name) ==
    {r \in 1..Len(RefNameRules) : \E sub \in RefNameRules[r][1] : includes(name, sub)}

\* C5: a file whose lowercased name does not end in .csv and matches a name rule
\* gets the dataset of the first rule it matches, airport first, and its content
\* is not read.
C5_NameRulesInOrder ==
    (det.state # "idle" /\ ~IsCsv(file) /\ RefRuleHits(toLowerCase(file.name)) # {}) =>
        /\ det.state = "settled"
        /\ det.value = RefNameRules[Nth(RefRuleHits(toLowerCase(file.name)), 1)][2]
        /\ det.read = "none"
        /\ (includes(toLowerCase(file.name), Chars("airport")) => det.value = "airport")

C5_Witness ==
    /\ det.state = "settled"
    /\ file.name = Chars("airline_airports.txt")
    /\ det.value = "airport"
    /\ det.read = "none"

----------------------------------------------------------------------------
(* handleUpload with the page-local uploadFile *)

PageFiles ==
    {[present |-> TRUE, name |-> Chars("flights_q1.csv"), text |-> FlightsHeader],
     [present |-> TRUE, name |-> Chars("data.csv"), text |-> Chars("id,name,date")],
     [present |-> TRUE, name |-> Chars("passengers.csv"),
      text |-> Chars("\n \r\nFull Name,PassengerKey\nx,1\n")],
     [present |-> TRUE, name |-> Chars("Airport_Flights.docx"), text |-> <<>>],
     [present |-> TRUE, name |-> Chars("report.docx"),
      text |-> Chars("Invoice|TransactionID")],
     [present |-> TRUE, name |-> Chars("report.docx"), text |-> <<>>]}

\* the page is mounted: its buttons can be clicked when they are not disabled
OnPage == pc \notin {"lib", "off"}

\* if (!file) return alert("Select a file first.")
HandleUploadNoFile ==
    /\ OnPage /\ ~busy
    /\ alertMsg' = "Select a file first."
    /\ UNCHANGED <<pc, busy, progress, result, detected, lastUploadId, up, sent>>
    /\ UNCHANGED <<file, det, tokensPreview, pureVars, historyVars>>

\* handleUpload up to the await of detectDatasetFromFile
HandleUploadClick ==
    /\ OnPage /\ ~busy
    /\ \E f \in PageFiles :
        /\ file' = f
        /\ det' = detectStart(f)
    /\ busy' = TRUE
    /\ progress' = 0
    /\ result' = NoResult
    /\ pc' = "detecting"
    /\ alertMsg' = ""
    /\ UNCHANGED <<detected, lastUploadId, up, sent, tokensPreview, pureVars, historyVars>>

\* onProgress(100)
pageProgress(log) == Append(log, 100)

\* setDetected(dataset), and uploadFile up to its await of fetch
UploadStart ==
    /\ pc = "detecting" /\ det.state = "settled"
    /\ detected' = det.value
    /\ up' = [UpIdle EXCEPT !.impl = "page", !.state = "sending", !.cb = TRUE]
    /\ pc' = "uploading"
    /\ UNCHANGED <<busy, progress, result, lastUploadId, sent, alertMsg>>
    /\ UNCHANGED <<file, det, tokensPreview, pureVars, historyVars>>

\* uploadRes.payload?.upload_id ?? null, payload being the parsed body or null
pageUploadId(body) == IF body.kind = "json" THEN body.id ELSE NoId

\* a 2xx response: uploadFile reports 100 and returns, handleUpload stores the id
PageUploadOk ==
    /\ pc = "uploading" /\ up.impl = "page" /\ up.state = "sending"
    /\ \E status \in Statuses, body \in Bodies :
        /\ IsOk(status)
        /\ up' = [up EXCEPT !.state = "resolved", !.outcome = "response",
                            !.status = status, !.log = pageProgress(up.log),
                            !.res = Res({"payload", "rawText"}, FALSE, NoId)]
        /\ progress' = IF pageProgress(up.log) = <<>> THEN progress
                       ELSE pageProgress(up.log)[Len(pageProgress(up.log))]
        /\ lastUploadId' = pageUploadId(body)
        /\ returnedIds' = returnedIds \cup ({pageUploadId(body)} \ {NoId})
    /\ idDetected' = detected
    /\ result' = [shown |-> TRUE, ok |-> TRUE, message |-> "Upload successful!"]
    /\ busy' = FALSE
    /\ pc' = "idle"
    /\ file' = NoFile
    /\ det' = DetIdle
    /\ UNCHANGED <<detected, sent, alertMsg, tokensPreview, pureVars>>

\* a non-2xx response: uploadFile throws, handleUpload catches
PageUploadHttpError ==
    /\ pc = "uploading" /\ up.impl = "page" /\ up.state = "sending"
    /\ \E status \in Statuses :
        /\ ~IsOk(status)
        /\ up' = [up EXCEPT !.state = "rejected", !.outcome = "response",
                            !.status = status,
                            !.res = Res({"message"}, FALSE, NoId)]
    /\ result' = [shown |-> TRUE, ok |-> FALSE, message |-> "Upload failed"]
    /\ busy' = FALSE
    /\ pc' = "idle"
    /\ file' = NoFile
    /\ det' = DetIdle
    /\ UNCHANGED <<progress, detected, lastUploadId, sent, alertMsg, tokensPreview, pureVars, historyVars>>

\* fetch or res.text() rejects: uploadFile rejects, handleUpload catches
PageUploadNetworkError ==
    /\ pc = "uploading" /\ up.impl = "page" /\ up.state = "sending"
    /\ up' = [up EXCEPT !.state = "rejected", !.outcome = "neterror",
                        !.res = Res({"message"}, FALSE, NoId)]
    /\ result' = [shown |-> TRUE, ok |-> FALSE, message |-> "Upload failed"]
    /\ busy' = FALSE
    /\ pc' = "idle"
    /\ file' = NoFile
    /\ det' = DetIdle
    /\ UNCHANGED <<progress, detected, lastUploadId, sent, alertMsg, tokensPreview, pureVars, historyVars>>

----------------------------------------------------------------------------
(* handleProcess with the page-local processUpload *)

\* if (!lastUploadId) return alert("No uploaded file found. Upload first.")
HandleProcessNoUpload ==
    /\ OnPage /\ ~busy
    /\ Falsy(lastUploadId)
    /\ alertMsg' = "No uploaded file found. Upload first."
    /\ UNCHANGED <<pc, busy, progress, result, detected, lastUploadId, up, sent>>
    /\ UNCHANGED <<file, det, tokensPreview, pureVars, historyVars>>

\* handleProcess up to the await of processUpload
HandleProcessClick ==
    /\ OnPage /\ ~busy
    /\ ~Falsy(lastUploadId)
    /\ busy' = TRUE
    /\ progress' = 25
    /\ result' = NoResult
    /\ sent' = [issued |-> TRUE, uploadId |-> lastUploadId, dataset |-> detected]
    /\ pc' = "processing"
    /\ alertMsg' = ""
    /\ UNCHANGED <<detected, lastUploadId, up>>
    /\ UNCHANGED <<file, det, tokensPreview, pureVars, historyVars>>

\* a 2xx response to the processing request
ProcessOk ==
    /\ pc = "processing"
    /\ progress' = 100
    /\ result' = [shown |-> TRUE, ok |-> TRUE, message |-> "Processing succeeded!"]
    /\ busy' = FALSE
    /\ sent' = NoRequest
    /\ pc' = "idle"
    /\ UNCHANGED <<detected, lastUploadId, up, alertMsg>>
    /\ UNCHANGED <<file, det, tokensPreview, pureVars, historyVars>>

\* a non-2xx response or a network error: processUpload throws
ProcessFail ==
    /\ pc = "processing"
    /\ result' = [shown |-> TRUE, ok |-> FALSE, message |-> "Processing failed"]
    /\ busy' = FALSE
    /\ sent' = NoRequest
    /\ pc' = "idle"
    /\ UNCHANGED <<progress, detected, lastUploadId, up, alertMsg>>
    /\ UNCHANGED <<file, det, tokensPreview, pureVars, historyVars>>

----------------------------------------------------------------------------
(* uploadFile of api.js and of the legacy api module, called directly *)

\* _safeParseResponseText: ok is whether the text parsed as JSON, truthy whether
\* the parsed value is truthy
safeParseResponseText(body) ==
    IF body.kind = "empty" THEN [ok |-> FALSE, truthy |-> FALSE]
    ELSE IF body.kind = "text" THEN [ok |-> FALSE, truthy |-> FALSE]
    ELSE [ok |-> TRUE, truthy |-> body.kind = "json"]

\* a plausible slip: the percentage is what is left, not what is sent
roundPctLeft(loaded, total) == 100 - (200 * loaded + total) \div (2 * total)

\* Math.round((ev.loaded / ev.total) * 100)
roundPct(loaded, total) == (200 * loaded + total) \div (2 * total)

\* xhr.upload.onprogress: the callback is called when the event is length
\* computable and a callback function was given
onUploadProgress(u, loaded) ==
    IF u.total # 0 /\ u.cb THEN Append(u.log, roundPct(loaded, u.total)) ELSE u.log

\* a plausible slip: a network error rejects the promise
apiFailureRejects(u, how) ==
    [u EXCEPT !.state = "rejected", !.outcome = how,
              !.res = Res({"message"}, FALSE, NoId)]

\* resolve({ success: false, error: ... }) of api.js: no file, onerror, onabort
apiFailure(u, how) ==
    [u EXCEPT !.state = "resolved", !.outcome = how,
              !.res = Res({"success", "error"}, FALSE, NoId)]

\* xhr.onload of api.js
apiOnLoad(u, status, body) ==
    LET parsed == safeParseResponseText(body)
    IN  [u EXCEPT !.state = "resolved", !.outcome = "response", !.status = status,
                  !.res = IF IsOk(status)
                          THEN IF parsed.ok /\ parsed.truthy
                               THEN Res({"success", "status", "data", "upload_id"}, TRUE, body.id)
                               ELSE Res({"success", "status", "data", "upload_id"}, TRUE, NoId)
                          ELSE Res({"success", "status", "error", "data"}, FALSE, NoId)]

\* xhr.onload of the legacy module: the parsed body or the text on 2xx, an Error
\* otherwise
legacyOnLoad(u, status) ==
    IF IsOk(status)
    THEN [u EXCEPT !.state = "resolved", !.outcome = "response", !.status = status,
                   !.res = Res({}, FALSE, NoId)]
    ELSE [u EXCEPT !.state = "rejected", !.outcome = "response", !.status = status,
                   !.res = Res({"message"}, FALSE, NoId)]

\* uploadFile of api.js without a file
ApiCallNoFile ==
    /\ pc = "lib" /\ up.state # "sending"
    /\ up' = apiFailure([UpIdle EXCEPT !.impl = "api"], "nofile")
    /\ UNCHANGED <<pc, busy, progress, result, detected, lastUploadId, sent, alertMsg>>
    /\ UNCHANGED <<file, det, tokensPreview, pureVars, historyVars>>

\* uploadFile up to xhr.send(form), with or without a progress callback
XhrSend ==
    /\ pc = "lib" /\ up.state # "sending"
    /\ \E impl \in {"api", "legacy"}, cb \in BOOLEAN, total \in 1..MaxTotal :
        up' = [UpIdle EXCEPT !.impl = impl, !.state = "sending", !.cb = cb,
                             !.total = total]
    /\ UNCHANGED <<pc, busy, progress, result, detected, lastUploadId, sent, alertMsg>>
    /\ UNCHANGED <<file, det, tokensPreview, pureVars, historyVars>>

\* a progress event of the upload while the body is being transmitted
XhrUploadProgress ==
    /\ pc = "lib" /\ up.state = "sending" /\ ~up.complete
    /\ up.events < MaxEvents
    /\ \E loaded \in up.loaded..up.total :
        up' = [up EXCEPT !.loaded = loaded, !.events = up.events + 1,
                         !.log = onUploadProgress(up, loaded)]
    /\ UNCHANGED <<pc, busy, progress, result, detected, lastUploadId, sent, alertMsg>>
    /\ UNCHANGED <<file, det, tokensPreview, pureVars, historyVars>>

\* the body is transmitted: the closing progress event, with loaded = total
XhrUploadComplete ==
    /\ pc = "lib" /\ up.state = "sending" /\ ~up.complete
    /\ up' = [up EXCEPT !.loaded = up.total, !.complete = TRUE,
                        !.log = onUploadProgress(up, up.total)]
    /\ UNCHANGED <<pc, busy, progress, result, detected, lastUploadId, sent, alertMsg>>
    /\ UNCHANGED <<file, det, tokensPreview, pureVars, historyVars>>

\* xhr.onload: the response arrived, after the body was transmitted
XhrLoad ==
    /\ pc = "lib" /\ up.state = "sending" /\ up.complete
    /\ \E status \in Statuses, body \in Bodies :
        up' = IF up.impl = "api" THEN apiOnLoad(up, status, body)
              ELSE legacyOnLoad(up, status)
    /\ UNCHANGED <<pc, busy, progress, result, detected, lastUploadId, sent, alertMsg>>
    /\ UNCHANGED <<file, det, tokensPreview, pureVars, historyVars>>

\* xhr.onerror: api.js resolves with an error result, the legacy module rejects
XhrError ==
    /\ pc = "lib" /\ up.state = "sending"
    /\ up' = IF up.impl = "api" THEN apiFailure(up, "neterror")
             ELSE [up EXCEPT !.state = "rejected", !.outcome = "neterror",
                             !.res = Res({"message"}, FALSE, NoId)]
    /\ UNCHANGED <<pc, busy, progress, result, detected, lastUploadId, sent, alertMsg>>
    /\ UNCHANGED <<file, det, tokensPreview, pureVars, historyVars>>

\* the abort event: api.js resolves with an error result; the legacy module
\* sets no onabort, so its promise is never settled
XhrAbort ==
    /\ pc = "lib" /\ up.state = "sending"
    /\ up' = IF up.impl = "api" THEN apiFailure(up, "abort")
             ELSE [up EXCEPT !.state = "stalled", !.outcome = "abort"]
    /\ UNCHANGED <<pc, busy, progress, result, detected, lastUploadId, sent, alertMsg>>
    /\ UNCHANGED <<file, det, tokensPreview, pureVars, historyVars>>

----------------------------------------------------------------------------
(* The page and the api modules *)

Init ==
    /\ rawLine = <<>>
    /\ tokens = [ran |-> FALSE, out |-> <<>>]
    /\ pickTokens = <<>>
    /\ pickName = <<>>
    /\ scores = [ds \in {} |-> 0]
    /\ best = NotRun
    /\ calls = 0
    /\ file = NoFile
    /\ det = DetIdle
    /\ tokensPreview = NoPreview
    /\ \E mode \in {"idle", "lib"} : PageStart(mode)

Next ==
    \/ HandleUploadNoFile
    \/ HandleUploadClick
    \/ ReaderLoad
    \/ ReaderError
    \/ TextResolve
    \/ TextReject
    \/ UploadStart
    \/ PageUploadOk
    \/ PageUploadHttpError
    \/ PageUploadNetworkError
    \/ HandleProcessNoUpload
    \/ HandleProcessClick
    \/ ProcessOk
    \/ ProcessFail
    \/ ApiCallNoFile
    \/ XhrSend
    \/ XhrUploadProgress
    \/ XhrUploadComplete
    \/ XhrLoad
    \/ XhrError
    \/ XhrAbort

Spec == Init /\ [][Next]_vars

\* C4: every detectDatasetFromFile call settles with a dataset: once the read of
\* the file has ended, by a load or by a failure, the call has returned a
\* dataset, and after a failed read that dataset is the default airline.
C4_DetectionSettles ==
    det.read \in {"loaded", "failed"} =>
        /\ det.state = "settled"
        /\ det.value \in Datasets
        /\ (det.read = "failed" => det.value = "airline")

UpEnded == up.state \in {"resolved", "rejected", "stalled"}

UpSucceeded ==
    /\ up.state = "resolved"
    /\ up.cb
    /\ (up.impl = "api" => up.res.success)

\* C10: the values given to the progress callback during one upload are
\* integers in 0..100 that never decrease, and a successful upload has given
\* 100 as its last value.
C10_ProgressMonotoneTo100 ==
    /\ \A i \in 1..Len(up.log) : up.log[i] \in 0..100
    /\ \A i \in 1..Len(up.log) : \A j \in i..Len(up.log) : up.log[i] <= up.log[j]
    /\ UpSucceeded => (up.log # <<>> /\ up.log[Len(up.log)] = 100)
    /\ (UpSucceeded /\ up.impl = "page" /\ pc = "idle" /\ result.ok
            /\ result.message = "Upload successful!") => progress = 100

\* api.js reports 33, 67, 100 and succeeds
C10_Witness ==
    /\ up.impl = "api"
    /\ up.state = "resolved"
    /\ up.res.success
    /\ up.log = <<33, 67, 100>>

C10_WitnessPage ==
    /\ up.impl = "page"
    /\ up.state = "resolved"
    /\ up.log = <<100>>
    /\ progress = 100

----------------------------------------------------------------------------
(* Upload and Process clicks in any order *)

\* C11: a processing request is in flight only when an earlier handleUpload run
\* ended in success with an upload id, and the upload_id it carries is a truthy
\* id that such a run returned; as long as no successful upload has returned a
\* truthy id, and whenever lastUploadId is null or 0, no request is in flight,
\* and the alert of handleProcess is shown only then.
C11_ProcessNeedsUploadedId ==
    /\ sent.issued =>
        /\ sent.uploadId \in returnedIds \ {NoId, 0}
        /\ sent.uploadId = lastUploadId
    /\ (returnedIds \ {NoId, 0} = {}) => ~sent.issued
    /\ (lastUploadId \in {NoId, 0}) => ~sent.issued
    /\ (lastUploadId # NoId) => lastUploadId \in returnedIds
    /\ (alertMsg = "No uploaded file found. Upload first.") =>
            (lastUploadId \in {NoId, 0} /\ ~sent.issued)

\* a request for upload 1 is in flight after an upload that returned 2 and a
\* later one that returned 1
C11_Witness ==
    /\ sent.issued
    /\ sent.uploadId = 1
    /\ returnedIds = {1, 2}
    /\ pc = "processing"

\* Process was refused after a successful upload that returned no id
C11_WitnessRefused ==
    /\ alertMsg = "No uploaded file found. Upload first."
    /\ result.ok /\ result.message = "Upload successful!"
    /\ lastUploadId = NoId
    /\ ~sent.issued

\* handleUpload or handleProcess is between its setBusy(true) and its finally
HandlerRunning == pc \in {"detecting", "uploading", "processing"}

\* a click on Upload or on Process that the page accepts
Click ==
    \/ HandleUploadNoFile
    \/ HandleUploadClick
    \/ HandleProcessNoUpload
    \/ HandleProcessClick

\* the running handler waits for a file read that is still going
ReadGoing == pc = "detecting" /\ det.state = "pending" /\ det.read = "reading"

\* the running handler resumes: handleUpload goes on to the upload, or the
\* request is answered and the handler reaches its finally
HandlerStep ==
    \/ UploadStart
    \/ PageUploadOk
    \/ PageUploadHttpError
    \/ PageUploadNetworkError
    \/ ProcessOk
    \/ ProcessFail

\* C12, the part the code keeps: busy is true exactly while a handler runs,
\* no click is accepted while busy, so at most one upload or processing
\* request is in flight, and never both.
C12_BusyWhileHandlerRuns ==
    OnPage =>
        /\ busy <=> HandlerRunning
        /\ busy => ~ENABLED Click
        /\ ~busy => (up.state # "sending" /\ ~sent.issued)
        /\ ~(up.state = "sending" /\ sent.issued)

\* C12 as stated: busy is true exactly while a handler runs, no click is
\* accepted while busy, and every handler run, a failed or stalled detection
\* read included, comes to its finally: while busy is true the running handler
\* waits for a read that is still going or for an answer to its request, or
\* is ready to go on.
C12_OneOperationBusyReturns ==
    OnPage =>
        /\ busy <=> HandlerRunning
        /\ busy => ~ENABLED Click
        /\ busy => (ReadGoing \/ ENABLED HandlerStep)

\* the detection read of a .csv file has failed and busy is still true
C12_StuckBusy ==
    /\ pc = "detecting"
    /\ busy
    /\ det.read = "failed"
    /\ det.state = "pending"

\* C13: a processing request carries the dataset that was detected in the
\* handleUpload run whose upload id it carries, and between handler runs
\* detected and a stored lastUploadId come from the same handleUpload run.
C13_SentDatasetOfSentId ==
    /\ sent.issued => sent.dataset = idDetected
    /\ (OnPage /\ ~busy /\ ~Falsy(lastUploadId)) => detected = idDetected

\* what the code keeps: the request carries the two state values as they are
C13_SentIsCurrentState ==
    sent.issued => (sent.uploadId = lastUploadId /\ sent.dataset = detected)

\* a request for an upload detected as passenger carries the dataset of a later,
\* failed upload
C13_Mismatch ==
    /\ sent.issued
    /\ idDetected = "passenger"
    /\ sent.dataset = "corporatesales"
    /\ result = NoResult

====
